---------------------------- MODULE Spec2Model ----------------------------
(***************************************************************************)
(* Model of src/chatbot.py: the vendor recommendation and event cost       *)
(* estimation page.                                                        *)
(*                                                                         *)
(* Representation.                                                         *)
(*  - A Python str is a sequence of one-character strings, so that         *)
(*    str.lower, str.contains, str.split and str.strip are computed        *)
(*    character by character.                                              *)
(*  - A DataFrame is the sequence of its rows in positional order; a row   *)
(*    keeps the index label it had in the table it was read from (idx).    *)
(*  - rating is held in tenths (45 is 4.5), a tier factor in hundredths    *)
(*    (115 is 1.15).  Scores are exact fractions num/den.                  *)
(*  - A cost, a total and the estimate negotiate receives are Python       *)
(*    floats (IEEE-754 doubles).  The double a/8 + b * 2^-46 is the record *)
(*    [a, b]: a counts eighths of a currency unit and is what the          *)
(*    arithmetic gives without rounding, b counts units of 2^-46 and is    *)
(*    the rounding error the double carries.  Every operation rounds to    *)
(*    the nearest double, ties to the even one, as the hardware does.  The *)
(*    representation is exact for doubles from 64 up to 2^28 whose value   *)
(*    without the error is a multiple of 1/8, which covers every amount of *)
(*    the page (guests >= 10).  Quotes and counter-offers are integers.    *)
(***************************************************************************)
EXTENDS Integers, Sequences, FiniteSets, TLC

VARIABLES
    pc,           \* position of the caller: "call", "done" or "page"
    args,         \* arguments of the function call under way
    ret,          \* what the call returned (or that it raised)
    service_db,   \* module global SERVICE_DB
    tiers,        \* module global TIERS
    raised_before,\* history: some earlier estimate_cost call raised
    env,          \* the machine: is vendor_data.csv there, what was uploaded
    widgets,      \* Streamlit session: the value of every widget
    trigger,      \* the widget whose interaction started the last script run
    page          \* what the last script run produced

vars == <<pc, args, ret, service_db, tiers, raised_before, env, widgets, trigger, page>>

-----------------------------------------------------------------------------
(* Bounds *)

MaxRows == 2

MaxServices == 3

MaxEstimateSteps == 64

MaxQuoteSteps == 840

-----------------------------------------------------------------------------
(* Python str *)

UpperChars == <<"A","B","C","D","E","F","G","H","I","J","K","L","M",
                "N","O","P","Q","R","S","T","U","V","W","X","Y","Z">>

LowerChars == <<"a","b","c","d","e","f","g","h","i","j","k","l","m",
                "n","o","p","q","r","s","t","u","v","w","x","y","z">>

\* Code point order of the characters that occur in the model's strings.
CharOrder == <<" ", ",", "-", "/">> \o UpperChars \o LowerChars

CharRank(c) == CHOOSE i \in 1..Len(CharOrder) : CharOrder[i] = c

lower_char(c) ==
    IF \E i \in 1..26 : UpperChars[i] = c
    THEN LowerChars[CHOOSE i \in 1..26 : UpperChars[i] = c]
    ELSE c

upper_char(c) ==
    IF \E i \in 1..26 : LowerChars[i] = c
    THEN UpperChars[CHOOSE i \in 1..26 : LowerChars[i] = c]
    ELSE c

\* str.lower()
str_lower(s) == [i \in 1..Len(s) |-> lower_char(s[i])]

\* Series.str.contains(pat) for a pattern without regex metacharacters:
\* pat occurs in s as a contiguous substring.
str_contains(s, pat) ==
    \E k \in 0..(Len(s) - Len(pat)) :
        \A i \in 1..Len(pat) : s[k + i] = pat[i]

\* str.strip(): drop leading and trailing blanks.
str_strip(s) ==
    LET nb == {i \in 1..Len(s) : s[i] # " "}
    IN  IF nb = {} THEN <<>>
        ELSE LET lo == CHOOSE i \in nb : \A j \in nb : i <= j
                 hi == CHOOSE i \in nb : \A j \in nb : j <= i
             IN  SubSeq(s, lo, hi)

\* str.split(","): the set of the pieces between the commas.
str_split(s) ==
    LET cuts == {0, Len(s) + 1} \cup {i \in 1..Len(s) : s[i] = ","}
    IN  { SubSeq(s, a + 1, b - 1) :
            <<a, b>> \in {x \in cuts \X cuts :
                            /\ x[1] < x[2]
                            /\ \A c \in cuts : ~(x[1] < c /\ c < x[2])} }

\* s < t in Python's ordering of str (lexicographic by code point).
str_less(s, t) ==
    \E k \in 1..(Len(t)) :
        /\ k <= Len(s) + 1
        /\ \A i \in 1..(k - 1) : s[i] = t[i]
        /\ \/ k = Len(s) + 1
           \/ k <= Len(s) /\ CharRank(s[k]) < CharRank(t[k])

\* sorted(S)[0] for a non-empty set of str
str_min(S) == CHOOSE s \in S : \A t \in S : t = s \/ str_less(s, t)

-----------------------------------------------------------------------------
(* Exact fractions, for the scores *)

RECURSIVE GCD(_, _)
GCD(a, b) == IF b = 0 THEN a ELSE GCD(b, a % b)

Abs(x) == IF x < 0 THEN -x ELSE x

\* n/d in lowest terms with a positive denominator (d # 0)
Frac(n, d) ==
    LET g == GCD(Abs(n), Abs(d))
        sg == IF d < 0 THEN -1 ELSE 1
    IN  [num |-> sg * (n \div g), den |-> sg * (d \div g)]

FracLE(x, y) == x.num * y.den <= y.num * x.den

FracEq(x, y) == x.num * y.den = y.num * x.den

-----------------------------------------------------------------------------
(* score_vendors *)

\* df["event_types"].str.lower().str.contains(event_type), one row;
\* event_type is already lower-cased by the caller.
ok_type(row, event_type) ==
    str_contains(str_lower(row.event_types), event_type)

\* A filter that forgets the upper end of the budget interval.
ok_budget_no_upper(row, budget) == row.min_budget <= budget

\* (df.min_budget <= budget) & (df.max_budget >= budget), one row
ok_budget(row, budget) ==
    (row.min_budget <= budget) /\ (row.max_budget >= budget)

\* (cand.city.str.lower() == city).astype(int), one row
loc_bonus(row, city) == IF str_lower(row.city) = city THEN 1 ELSE 0

\* 1 - abs(mid - budget) / mid with mid = (min_budget + max_budget) / 2,
\* as the fraction (S - |S - 2*budget|) / S where S = min_budget + max_budget.
\* (S = 0 makes pandas produce NaN; the tables of the model keep S > 0.)
budget_bonus(row, budget) ==
    LET S == row.min_budget + row.max_budget
    IN  Frac(S - Abs(S - 2 * budget), S)

\* cand.rating * 2 + cand.loc_bonus * 1.5 + cand.budget_bonus
\* (rating is in tenths, so everything is put over 10 * den)
score(rating, loc, bonus) ==
    Frac((2 * rating + 15 * loc) * bonus.den + 10 * bonus.num, 10 * bonus.den)

\* The k-th smallest element of a finite set of integers
KthOf(S, k) == CHOOSE i \in S : Cardinality({j \in S : j < i}) = k - 1

\* df[mask].copy(): the rows whose position is in keep, in table order,
\* each with its index label.
select_rows(df, keep) ==
    [k \in 1..Cardinality(keep) |->
        [idx |-> KthOf(keep, k), row |-> df[KthOf(keep, k)]]]

\* The three derived columns of one candidate row
add_columns(c, budget, city) ==
    LET lb == loc_bonus(c.row, city)
        bb == budget_bonus(c.row, budget)
    IN  [idx |-> c.idx, row |-> c.row, loc_bonus |-> lb, budget_bonus |-> bb,
         score |-> score(c.row.rating, lb, bb)]

Perms(n) == {p \in [1..n -> 1..n] : \A i, j \in 1..n : i # j => p[i] # p[j]}

\* cand.sort_values("score", ascending=False).  The default kind is
\* "quicksort", which pandas documents as not stable: rows with equal score
\* come out in an order that depends on the numpy build, so every descending
\* arrangement is a possible result.
sort_values(cand) ==
    { [i \in 1..Len(cand) |-> cand[p[i]]] :
        p \in {q \in Perms(Len(cand)) :
                 \A i \in 1..(Len(cand) - 1) :
                     FracLE(cand[q[i + 1]].score, cand[q[i]].score)} }

\* The set of the values score_vendors can return.
score_vendors(df, event_type0, budget, city0) ==
    IF df = <<>> THEN {df}
    ELSE
      LET event_type == str_lower(event_type0)
          city == str_lower(city0)
          keep == {i \in 1..Len(df) :
                     ok_type(df[i], event_type) /\ ok_budget(df[i], budget)}
          cand == select_rows(df, keep)
      IN  IF cand = <<>> THEN {cand}
          ELSE sort_values([k \in 1..Len(cand) |->
                              add_columns(cand[k], budget, city)])

-----------------------------------------------------------------------------
(* The strings of the model, spelled out as character sequences *)

sVenue == <<"V","e","n","u","e">>

sCatering == <<"C","a","t","e","r","i","n","g">>

sDecor == <<"D","e","c","o","r">>

sPhotography == <<"P","h","o","t","o","g","r","a","p","h","y">>

sEntertainment == <<"E","n","t","e","r","t","a","i","n","m","e","n","t"," ","/"," ","D","J">>

sAVEquipment == <<"A","V"," ","E","q","u","i","p","m","e","n","t">>

sSecurity == <<"S","e","c","u","r","i","t","y">>

sTransport == <<"T","r","a","n","s","p","o","r","t">>

sFlorist == <<"F","l","o","r","i","s","t">>

sWedding == <<"w","e","d","d","i","n","g">>

sBirthday == <<"b","i","r","t","h","d","a","y">>

sConference == <<"c","o","n","f","e","r","e","n","c","e">>

sPicnic == <<"p","i","c","n","i","c">>

sWeddings == <<"w","e","d","d","i","n","g","s">>

sWeddingParty == <<"W","e","d","d","i","n","g",",","P","a","r","t","y">>

sPreWedding == <<"P","R","E","-","W","E","D","D","I","N","G",","," ","G","a","l","a">>

sParty == <<"P","a","r","t","y">>

sGala == <<"G","a","l","a">>

sPune == <<"P","u","n","e">>

sGoa == <<"G","o","a">>

sPuneUpper == <<"P","U","N","E">>

-----------------------------------------------------------------------------
(* Config *)

TOP_N == 3

\* SERVICE_DB; unit is "per_guest" or "fixed"
SERVICE_DB ==
    (sVenue         :> [base |-> 700,   unit |-> "per_guest"]) @@
    (sCatering      :> [base |-> 1200,  unit |-> "per_guest"]) @@
    (sDecor         :> [base |-> 300,   unit |-> "per_guest"]) @@
    (sPhotography   :> [base |-> 45000, unit |-> "fixed"])     @@
    (sEntertainment :> [base |-> 35000, unit |-> "fixed"])     @@
    (sAVEquipment   :> [base |-> 250,   unit |-> "per_guest"]) @@
    (sSecurity      :> [base |-> 90,    unit |-> "per_guest"]) @@
    (sTransport     :> [base |-> 150,   unit |-> "per_guest"])

\* list(SERVICE_DB.keys()): insertion order
SERVICE_KEYS == <<sVenue, sCatering, sDecor, sPhotography, sEntertainment,
                  sAVEquipment, sSecurity, sTransport>>

\* TIERS, the factors in hundredths
TIERS == [Basic |-> 100, Standard |-> 115, Premium |-> 135]

\* list(TIERS.keys())
TIER_KEYS == <<"Basic", "Standard", "Premium">>

-----------------------------------------------------------------------------
(* checklist *)

\* The dict of timelines; the labels are written in ASCII.
timelines ==
    (sWedding :> << <<"T-12 mo", "Set guest list & budget">>,
                    <<"T-10 mo", "Book venue & caterer">>,
                    <<"T-8 mo", "Secure decor & photo">>,
                    <<"T-6 mo", "Send save-the-dates">>,
                    <<"T-3 mo", "Finalize menu & music">>,
                    <<"T-1 mo", "Confirm all vendors">>,
                    <<"Day 0", "Celebrate!">> >>) @@
    (sBirthday :> << <<"T-4 wk", "Pick theme & invites">>,
                     <<"T-3 wk", "Book cake & decor">>,
                     <<"T-1 wk", "Confirm RSVPs & food">>,
                     <<"Day 0", "Party time!">> >>) @@
    (sConference :> << <<"T-6 mo", "Define goals & budget">>,
                       <<"T-5 mo", "Secure venue & sponsors">>,
                       <<"T-3 mo", "Open registrations">>,
                       <<"T-1 mo", "Finalize agenda">>,
                       <<"Day 0", "Run the show">> >>)

\* A lookup that forgets to lower-case the key.
checklist_case_sensitive(event_type) ==
    IF event_type \in DOMAIN timelines
    THEN timelines[event_type]
    ELSE << <<"T-4 wk", "Draft basic timeline">> >>

\* timelines.get(event_type.lower(), [("T-4 wk", "Draft basic timeline")])
checklist(event_type) ==
    IF str_lower(event_type) \in DOMAIN timelines
    THEN timelines[str_lower(event_type)]
    ELSE << <<"T-4 wk", "Draft basic timeline">> >>

-----------------------------------------------------------------------------
(* Python float *)

RECURSIVE Pow2Le(_, _)
\* The largest p * 2^k that is <= n (n >= p > 0)
Pow2Le(n, p) == IF 2 * p <= n THEN Pow2Le(n, 2 * p) ELSE p

\* float(n) for an int n: what int * float does to its left operand
py_float(n) == [a |-> 8 * n, b |-> 0]

\* The distance between neighbouring doubles at the value a/8 + b * 2^-46, in
\* units of 2^-46: 2^(e - 52) for a value in [2^e, 2^(e + 1)).  A value just
\* below a power of two lies in the binade under it.
ulp(a, b) ==
    LET p == Pow2Le(a, 1)
    IN  (IF a = p /\ b < 0 THEN p \div 2 ELSE p) \div 512

\* The double nearest the real a/8 + b * 2^-46, ties to the even significand.
\* a/8 is itself a double with an even significand, so b goes to the nearest
\* multiple of the spacing and a tie goes to the even multiple.
fl(a, b) ==
    LET g == ulp(a, b)
        r == b % g
        lo == b - r
    IN  [a |-> a,
         b |-> IF 2 * r < g THEN lo
               ELSE IF 2 * r > g THEN lo + g
               ELSE IF (lo \div g) % 2 = 0 THEN lo
               ELSE lo + g]

\* x + y for two floats; adding 0.0 changes nothing.
float_add(x, y) ==
    IF x.a = 0 THEN y
    ELSE IF y.a = 0 THEN x
    ELSE fl(x.a + y.a, x.b + y.b)

\* int(x): truncation toward zero of a float x >= 0
py_int(x) == IF x.a % 8 = 0 /\ x.b < 0 THEN x.a \div 8 - 1 ELSE x.a \div 8

\* n * tier_factor for an int n and the float tier_factor of TIERS (given in
\* hundredths).  1.0 is a double and the product is exact.  The double
\* nearest 1.15 is 1.15 - 0.4 * 2^-52 and the double nearest 1.35 is
\* 1.35 + 0.4 * 2^-52, so the real product lies 0.4 * n * 2^-52 under
\* (over) N = n * 115 / 100 (n * 135 / 100).  That is more than half the
\* spacing of the doubles at N, and the product rounds to the double under
\* (over) N, exactly when 4 * n > 5 * 2^floor(log2 N); at equality the tie
\* goes to N, whose significand is even.
int_times_tier(n, tier_factor) ==
    LET a == (2 * n * tier_factor) \div 25
        p == Pow2Le(a, 1)
    IN  [a |-> a,
         b |-> IF tier_factor = 100 \/ 32 * n <= 5 * p THEN 0
               ELSE IF tier_factor = 115 THEN 0 - (p \div 512)
               ELSE p \div 512]

\* x * 1.25 for a float x: 1.25 is a double, so the only rounding is that of
\* the product.
float_times_1_25(x) == fl((5 * x.a) \div 4, (5 * x.b) \div 4)

RECURSIVE accumulate(_, _, _, _, _)
\* res += costs[i] for i = k, k + step, ... while i <= last
accumulate(res, costs, k, step, last) ==
    IF k > last THEN res
    ELSE accumulate(float_add(res, costs[k]), costs, k + step, step, last)

\* The sum of a float64 column as numpy computes it (up to 128 values): fewer
\* than 8 values are added one after another from the first; from 8 values on
\* eight running sums take every eighth value, are added in pairs, and the
\* values left after the last full block of 8 are added one after another.
float_sum(costs) ==
    LET n == Len(costs)
        m == n - (n % 8)
        r(j) == accumulate(costs[j], costs, j + 8, 8, m)
    IN  IF n < 8 THEN accumulate(py_float(0), costs, 1, 1, n)
        ELSE accumulate(
                 float_add(float_add(float_add(r(1), r(2)), float_add(r(3), r(4))),
                           float_add(float_add(r(5), r(6)), float_add(r(7), r(8)))),
                 costs, m + 1, 1, n)

-----------------------------------------------------------------------------
(* estimate_cost *)

\* The body of the loop: the cost of one service, a float.  base * guests is
\* a product of ints.
row_cost(details, guests, tier_factor) ==
    IF details.unit = "per_guest"
    THEN int_times_tier(details.base * guests, tier_factor)
    ELSE int_times_tier(details.base, tier_factor)

\* df.sort_values("Service"): ascending by name.  Rows with the same name are
\* equal records here, so every ascending arrangement is the same sequence.
sort_by_service(rows) ==
    CHOOSE s \in { [i \in 1..Len(rows) |-> rows[p[i]]] : p \in Perms(Len(rows)) } :
        \A i \in 1..(Len(s) - 1) :
            s[i].Service = s[i + 1].Service \/ str_less(s[i].Service, s[i + 1].Service)

\* df["Cost"].sum(): the float sum of the column in the order of the sorted
\* rows; the sum of the empty column is 0.
sum_cost(df) == float_sum([k \in 1..Len(df) |-> df[k].Cost])

\* An estimator that skips the names it does not know.
estimate_cost_skip_unknown(db, services, guests, tier_factor) ==
    LET known == SelectSeq(services, LAMBDA srv : srv \in DOMAIN db)
        rows == [k \in 1..Len(known) |->
                   [Service |-> known[k], Unit |-> db[known[k]].unit,
                    Cost |-> row_cost(db[known[k]], guests, tier_factor)]]
        df == sort_by_service(rows)
    IN  [raised |-> "none", breakdown |-> df, total |-> sum_cost(df)]

\* estimate_cost, reading the global SERVICE_DB (db).  SERVICE_DB[srv] raises
\* KeyError at the first name that is not a key; the loop has no effect
\* outside its local list, so nothing is left of the rows built before.
estimate_cost(db, services, guests, tier_factor) ==
    IF \E k \in 1..Len(services) : services[k] \notin DOMAIN db
    THEN [raised |-> "KeyError",
          key |-> services[CHOOSE k \in 1..Len(services) :
                     /\ services[k] \notin DOMAIN db
                     /\ \A j \in 1..(k - 1) : services[j] \in DOMAIN db]]
    ELSE LET rows == [k \in 1..Len(services) |->
                        [Service |-> services[k], Unit |-> db[services[k]].unit,
                         Cost |-> row_cost(db[services[k]], guests, tier_factor)]]
             df == sort_by_service(rows)
         IN  [raised |-> "none", breakdown |-> df, total |-> sum_cost(df)]

-----------------------------------------------------------------------------
(* negotiate *)

\* The float product estimate_total * (1 + buffer) for a float estimate_total
\* and 1 + buffer = factor / 100, as the exact product x of a/8 and
\* factor / 100, in units of 1/800, and the side s on which the float lies of
\* it: -1 below, 0 on it, 1 above.  The side decides a result only where x is
\* an integer amount; elsewhere x is at least 1/800 away from every integer
\* and s is 0.  The doubles nearest 1.1 and 1.05 are 1.1 + 0.4 * 2^-52 and
\* 1.05 + 0.2 * 2^-52, and 1.25 is a double, so with c the 0.4, 0.2 or 0 the
\* real product is off x by P = (b * 64 * factor / 100 + (a/8) * c) * 2^-52,
\* and the float is off x when P is beyond half the spacing of the doubles at
\* x, 2^floor(log2 x) * 2^-53.  P and the half spacing are held 400-fold.
\* When P is exactly half the spacing, the product of the two errors, which
\* has the sign of b, takes the float off x; with b = 0 the tie goes to x.
fl_mul(estimate_total, factor) ==
    LET a == estimate_total.a
        b == estimate_total.b
        x == a * factor
        c10 == IF factor = 110 THEN 4 ELSE IF factor = 105 THEN 2 ELSE 0
        P == 256 * b * factor + 5 * a * c10
        H == 200 * Pow2Le(x \div 800, 1)
    IN  [x |-> x,
         s |-> IF x % 800 # 0 \/ x = 0 THEN 0
               ELSE IF P > H \/ (P = H /\ b > 0) THEN 1
               ELSE IF P < 0 - H \/ (P = 0 - H /\ b < 0) THEN 0 - 1
               ELSE 0]

\* vendor_quote <= y for an integer vendor_quote and a float product y
quote_le(vendor_quote, y) ==
    \/ vendor_quote * 800 < y.x
    \/ vendor_quote * 800 = y.x /\ y.s >= 0

\* round(y, -2): the multiple of 100 nearest the float, ties of the float's
\* own value going to the even multiple.
py_round_hundreds(y) ==
    LET r == y.x % 80000
        lo == y.x - r
    IN  IF r < 40000 THEN lo \div 800
        ELSE IF r > 40000 THEN (lo + 80000) \div 800
        ELSE IF y.s > 0 THEN (lo + 80000) \div 800
        ELSE IF y.s < 0 THEN lo \div 800
        ELSE IF (lo \div 80000) % 2 = 0 THEN lo \div 800
        ELSE (lo + 80000) \div 800

\* An advisor whose first comparison is strict.
negotiate_strict_accept(estimate_total, vendor_quote) ==
    IF vendor_quote * 800 < fl_mul(estimate_total, 110).x
    THEN [advice |-> "The quote is reasonable. Accept it.",
          counter |-> vendor_quote]
    ELSE IF quote_le(vendor_quote, fl_mul(estimate_total, 125))
    THEN [advice |-> "Fair but can be better. Counter at",
          counter |-> py_round_hundreds(fl_mul(estimate_total, 105))]
    ELSE [advice |-> "Quote is steep! Start with a firm counter of",
          counter |-> py_round_hundreds(fl_mul(estimate_total, 110))]

\* negotiate: buffer_low = 0.10, buffer_mid = 0.25; estimate_total is a
\* float (an int argument becomes one in the first product), vendor_quote an
\* int.  The advice is the fixed part of the text; the amount the text quotes
\* is the counter.
negotiate(estimate_total, vendor_quote) ==
    IF quote_le(vendor_quote, fl_mul(estimate_total, 110))
    THEN [advice |-> "The quote is reasonable. Accept it.",
          counter |-> vendor_quote]
    ELSE IF quote_le(vendor_quote, fl_mul(estimate_total, 125))
    THEN [advice |-> "Fair but can be better. Counter at",
          counter |-> py_round_hundreds(fl_mul(estimate_total, 105))]
    ELSE [advice |-> "Quote is steep! Start with a firm counter of",
          counter |-> py_round_hundreds(fl_mul(estimate_total, 110))]

-----------------------------------------------------------------------------
(* Values of the variables a specification does not use *)

NoCall == [fn |-> "none"]

NoWidgets == [uploaded |-> "None"]

NoPage == [exception |-> "not run"]

NoSession ==
    /\ env = [file_exists |-> FALSE]
    /\ widgets = NoWidgets
    /\ trigger = "none"
    /\ page = NoPage

Globals ==
    /\ service_db = SERVICE_DB
    /\ tiers = TIERS
    /\ raised_before = FALSE

-----------------------------------------------------------------------------
(* score_vendors called on bounded tables and queries *)

\* The vendor rows of the model's tables: the columns score_vendors reads.
VendorRows ==
    { [city |-> c, event_types |-> t, rating |-> r,
       min_budget |-> b[1], max_budget |-> b[2]] :
        c \in {sPune, sGoa},
        t \in {sWeddingParty, sPreWedding},
        r \in {40, 45},
        b \in {<<0, 40>>, <<40, 80>>, <<-20, 40>>} }

Tables == UNION { [1..n -> VendorRows] : n \in 0..MaxRows }

ScoreQueries ==
    { [fn |-> "score_vendors", df |-> d, event_type |-> e, budget |-> b, city |-> c] :
        d \in Tables, e \in {sWedding, sParty}, b \in {0, 20, 40, 90}, c \in {sPuneUpper} }

InitScore ==
    /\ pc = "call"
    /\ args \in ScoreQueries
    /\ ret = NoCall
    /\ Globals
    /\ NoSession

CallScoreVendors ==
    /\ pc = "call"
    /\ args.fn = "score_vendors"
    /\ \E r \in score_vendors(args.df, args.event_type, args.budget, args.city) :
           ret' = [fn |-> "score_vendors", value |-> r]
    /\ pc' = "done"
    /\ UNCHANGED <<args, service_db, tiers, raised_before, env, widgets, trigger, page>>

NextScore == CallScoreVendors

SpecScore == InitScore /\ [][NextScore]_vars

ScoreDone == pc = "done" /\ args.fn = "score_vendors"

\* The index labels of the returned rows
ReturnedIdx == {ret.value[i].idx : i \in 1..Len(ret.value)}

\* The event-type list of a row has the queried type as one of its entries,
\* compared case-insensitively (entries are the pieces between commas,
\* stripped of blanks as the page strips them for its dropdown).
HasEntry(event_types, event_type) ==
    \E e \in str_split(event_types) :
        str_lower(str_strip(e)) = str_lower(event_type)

\* C1: score_vendors returns exactly the rows of the table whose event-type
\* list has the queried type as an entry (case-insensitively) and whose
\* inclusive interval [min_budget, max_budget] contains the budget.
C1_ExactlyMatchingRows ==
    ScoreDone =>
        /\ ReturnedIdx =
             {i \in 1..Len(args.df) :
                /\ HasEntry(args.df[i].event_types, args.event_type)
                /\ args.df[i].min_budget <= args.budget
                /\ args.budget <= args.df[i].max_budget}
        /\ \A i \in 1..Len(ret.value) : ret.value[i].row = args.df[ret.value[i].idx]
        /\ Cardinality(ReturnedIdx) = Len(ret.value)

\* C2: the returned rows are in descending order of score, and rows of equal
\* score keep the relative order they had in the input table.
C2_DescendingAndStable ==
    ScoreDone =>
        \A i, j \in 1..Len(ret.value) :
            i < j =>
                /\ FracLE(ret.value[j].score, ret.value[i].score)
                /\ FracEq(ret.value[i].score, ret.value[j].score)
                       => ret.value[i].idx < ret.value[j].idx

\* C10: a returned row with 0 <= min_budget <= max_budget and max_budget > 0
\* has its budget_bonus in [0, 1], equal to 1 exactly when the budget is the
\* midpoint, and its score between rating*2 and rating*2 + 2.5.
C10_BonusInUnitInterval ==
    ScoreDone =>
        \A i \in 1..Len(ret.value) :
            LET c == ret.value[i]
            IN  (0 <= c.row.min_budget /\ c.row.min_budget <= c.row.max_budget
                   /\ c.row.max_budget > 0)
                =>
                /\ 0 <= c.budget_bonus.num
                /\ c.budget_bonus.num <= c.budget_bonus.den
                /\ (c.budget_bonus.num = c.budget_bonus.den)
                       <=> (2 * args.budget = c.row.min_budget + c.row.max_budget)
                /\ 2 * c.row.rating * c.score.den <= 10 * c.score.num
                /\ 10 * c.score.num <= (2 * c.row.rating + 25) * c.score.den

\* C10's case: a row at the very end of its interval is returned with bonus 0,
\* next to a row with a negative min_budget whose bonus is negative.
C10_Witness ==
    /\ ScoreDone
    /\ \E i, j \in 1..Len(ret.value) :
          /\ ret.value[i].row.min_budget = 0
          /\ ret.value[i].budget_bonus.num = 0
          /\ ret.value[i].loc_bonus = 1
          /\ ret.value[j].row.min_budget < 0
          /\ ret.value[j].budget_bonus.num < 0

-----------------------------------------------------------------------------
(* checklist called on every spelling of the known names and on other names *)

\* Every upper/lower-case spelling of a lower-case word
CaseVariants(w) ==
    { [i \in 1..Len(w) |-> IF i \in U THEN upper_char(w[i]) ELSE w[i]] :
        U \in SUBSET (1..Len(w)) }

EventTypeInputs ==
    UNION {CaseVariants(k) : k \in DOMAIN timelines}
        \cup CaseVariants(sPicnic) \cup {sWeddings, sParty, sWeddingParty, <<>>}

InitChecklist ==
    /\ pc = "call"
    /\ args \in {[fn |-> "checklist", event_type |-> e] : e \in EventTypeInputs}
    /\ ret = NoCall
    /\ Globals
    /\ NoSession

CallChecklist ==
    /\ pc = "call"
    /\ args.fn = "checklist"
    /\ ret' = [fn |-> "checklist", value |-> checklist(args.event_type)]
    /\ pc' = "done"
    /\ UNCHANGED <<args, service_db, tiers, raised_before, env, widgets, trigger, page>>

NextChecklist == CallChecklist

SpecChecklist == InitChecklist /\ [][NextChecklist]_vars

ChecklistDone == pc = "done" /\ args.fn = "checklist"

\* C5: every spelling of a known category returns that category's timeline,
\* which ends with the "Day 0" entry; any other event type returns exactly
\* the one generic entry.
C5_CaseInsensitiveLookup ==
    ChecklistDone =>
        IF \E k \in DOMAIN timelines : args.event_type \in CaseVariants(k)
        THEN /\ \A k \in DOMAIN timelines :
                   args.event_type \in CaseVariants(k) => ret.value = timelines[k]
             /\ ret.value[Len(ret.value)][1] = "Day 0"
        ELSE ret.value = << <<"T-4 wk", "Draft basic timeline">> >>

\* C5's case: a mixed-case spelling of "conference" got the conference timeline.
C5_Witness ==
    /\ ChecklistDone
    /\ args.event_type \in CaseVariants(sConference)
    /\ args.event_type # sConference
    /\ Len(ret.value) = 5
    /\ ret.value[5] = <<"Day 0", "Run the show">>

-----------------------------------------------------------------------------
(* estimate_cost called on service lists built one name at a time *)

GuestCounts == {11, 150, 200}

TierFactors == {TIERS[t] : t \in DOMAIN TIERS}

\* The names a request can hold: the catalog and one name that is not in it
RequestNames == DOMAIN SERVICE_DB \cup {sFlorist}

InitEstimate ==
    /\ pc = "call"
    /\ args \in {[fn |-> "estimate_cost", services |-> <<>>, guests |-> g, tier_factor |-> t] :
                    g \in GuestCounts, t \in TierFactors}
    /\ ret = NoCall
    /\ Globals
    /\ NoSession

\* The caller puts one more name in the list it is going to pass.
AddService ==
    /\ pc = "call"
    /\ args.fn = "estimate_cost"
    /\ Len(args.services) < MaxServices
    /\ \E srv \in RequestNames :
           args' = [args EXCEPT !.services = Append(@, srv)]
    /\ UNCHANGED <<pc, ret, service_db, tiers, raised_before, env, widgets, trigger, page>>

CallEstimateCost ==
    /\ pc = "call"
    /\ args.fn = "estimate_cost"
    /\ ret' = [fn |-> "estimate_cost",
               value |-> estimate_cost(service_db, args.services, args.guests, args.tier_factor)]
    /\ pc' = "done"
    /\ UNCHANGED <<args, service_db, tiers, raised_before, env, widgets, trigger, page>>

\* The process goes on after a call, whatever its outcome, with a new request.
NextRequest ==
    /\ pc = "done"
    /\ args.fn = "estimate_cost"
    /\ \E g \in GuestCounts, t \in TierFactors :
           args' = [fn |-> "estimate_cost", services |-> <<>>, guests |-> g, tier_factor |-> t]
    /\ raised_before' = (raised_before \/ ret.value.raised # "none")
    /\ ret' = NoCall
    /\ pc' = "call"
    /\ UNCHANGED <<service_db, tiers, env, widgets, trigger, page>>

NextEstimate == AddService \/ CallEstimateCost \/ NextRequest

SpecEstimate == InitEstimate /\ [][NextEstimate]_vars

EstimateDone == pc = "done" /\ args.fn = "estimate_cost"

\* 100 times the cost the cost formula gives one service
FormulaCost100(srv, guests, tier_factor) ==
    IF SERVICE_DB[srv].unit = "per_guest"
    THEN SERVICE_DB[srv].base * guests * tier_factor
    ELSE SERVICE_DB[srv].base * tier_factor

RECURSIVE FormulaTotal100(_, _, _, _)
\* 100 times the sum of the formula costs of services[k..]
FormulaTotal100(services, guests, tier_factor, k) ==
    IF k > Len(services) THEN 0
    ELSE FormulaCost100(services[k], guests, tier_factor)
            + FormulaTotal100(services, guests, tier_factor, k + 1)

\* How many times x occurs in the sequence s
Occurrences(s, x) == Cardinality({i \in 1..Len(s) : s[i] = x})

\* C4: for a selection from the catalog there is one breakdown row per
\* selected service, costing base*guests*tierFactor (per_guest) or
\* base*tierFactor (fixed); the total is the exact sum of the costs; the
\* empty selection gives the empty breakdown and total 0.  A cost [a, b] is
\* the amount of the formula when it carries no error (b = 0) and its eighths
\* a are 8/100 of the formula's hundredfold.
C4_CostFormula ==
    (EstimateDone /\ \A k \in 1..Len(args.services) : args.services[k] \in DOMAIN SERVICE_DB)
    =>
    LET v == ret.value
    IN  /\ v.raised = "none"
        /\ Len(v.breakdown) = Len(args.services)
        /\ \A srv \in DOMAIN SERVICE_DB :
              Occurrences([i \in 1..Len(v.breakdown) |-> v.breakdown[i].Service], srv)
                = Occurrences(args.services, srv)
        /\ \A i \in 1..Len(v.breakdown) :
              /\ v.breakdown[i].Unit = SERVICE_DB[v.breakdown[i].Service].unit
              /\ 25 * v.breakdown[i].Cost.a
                   = 2 * FormulaCost100(v.breakdown[i].Service, args.guests, args.tier_factor)
              /\ v.breakdown[i].Cost.b = 0
        /\ 25 * v.total.a = 2 * FormulaTotal100(args.services, args.guests, args.tier_factor, 1)
        /\ v.total.b = 0
        /\ (args.services = <<>>) => (v.breakdown = <<>> /\ v.total = py_float(0))

\* C6: a request with a name that is not in the catalog fails with the
\* unknown-key error and returns neither breakdown nor total, wherever the
\* name stands; the catalog and the tier table are unchanged, and a later
\* request of known names succeeds.
C6_UnknownServiceFails ==
    EstimateDone =>
        /\ service_db = SERVICE_DB
        /\ tiers = TIERS
        /\ (\E k \in 1..Len(args.services) : args.services[k] \notin DOMAIN SERVICE_DB)
              => /\ ret.value.raised = "KeyError"
                 /\ ret.value.key \notin DOMAIN SERVICE_DB
                 /\ "breakdown" \notin DOMAIN ret.value
                 /\ "total" \notin DOMAIN ret.value
        /\ (raised_before /\ \A k \in 1..Len(args.services) : args.services[k] \in DOMAIN SERVICE_DB)
              => /\ ret.value.raised = "none"
                 /\ Len(ret.value.breakdown) = Len(args.services)

\* C6's case: a request whose unknown name comes after a known one failed,
\* in a process where an earlier request had failed too.
C6_Witness ==
    /\ EstimateDone
    /\ raised_before
    /\ Len(args.services) >= 2
    /\ args.services[1] \in DOMAIN SERVICE_DB
    /\ args.services[2] \notin DOMAIN SERVICE_DB
    /\ ret.value.raised = "KeyError"

-----------------------------------------------------------------------------
(* negotiate called on bounded estimates and quotes *)

NegotiateInputs ==
    { [fn |-> "negotiate", estimate_total |-> 50 * e, vendor_quote |-> 5 * q] :
        e \in 0..MaxEstimateSteps, q \in 0..MaxQuoteSteps }

InitNegotiate ==
    /\ pc = "call"
    /\ args \in NegotiateInputs
    /\ ret = NoCall
    /\ Globals
    /\ NoSession

CallNegotiate ==
    /\ pc = "call"
    /\ args.fn = "negotiate"
    /\ ret' = [fn |-> "negotiate",
               value |-> negotiate(py_float(args.estimate_total), args.vendor_quote)]
    /\ pc' = "done"
    /\ UNCHANGED <<args, service_db, tiers, raised_before, env, widgets, trigger, page>>

NextNegotiate == CallNegotiate

SpecNegotiate == InitNegotiate /\ [][NextNegotiate]_vars

NegotiateDone == pc = "done" /\ args.fn = "negotiate"

\* c is a multiple of 100 nearest to x100 / 100
NearestHundred(c, x100) == c % 100 = 0 /\ Abs(100 * c - x100) <= 5000

\* C3: quote <= 110% of the estimate: accept, counter = quote; else
\* quote <= 125%: moderate counter at 105% of the estimate rounded to the
\* nearest 100; else firm counter at 110% rounded to the nearest 100.  Both
\* comparisons are inclusive.
C3_DecisionRule ==
    NegotiateDone =>
        LET e == args.estimate_total
            q == args.vendor_quote
            v == ret.value
        IN  IF 100 * q <= 110 * e
            THEN v.advice = "The quote is reasonable. Accept it." /\ v.counter = q
            ELSE IF 100 * q <= 125 * e
            THEN /\ v.advice = "Fair but can be better. Counter at"
                 /\ NearestHundred(v.counter, 105 * e)
            ELSE /\ v.advice = "Quote is steep! Start with a firm counter of"
                 /\ NearestHundred(v.counter, 110 * e)

\* C3's case: a quote at exactly 110% was accepted unchanged.
C3_Witness ==
    /\ NegotiateDone
    /\ args.estimate_total = 1500
    /\ args.vendor_quote = 1650
    /\ ret.value.advice = "The quote is reasonable. Accept it."
    /\ ret.value.counter = 1650

\* C9: for a positive estimate and a positive quote, whenever a counter is
\* returned (moderate or firm) it is strictly below the vendor's quote.
C9_CounterBelowQuote ==
    (NegotiateDone /\ args.estimate_total > 0 /\ args.vendor_quote > 0
        /\ ret.value.advice # "The quote is reasonable. Accept it.")
    => ret.value.counter < args.vendor_quote

-----------------------------------------------------------------------------
(* The page: one run of the script per user interaction *)

ERR_MISSING == "Required file 'vendor_data.csv' not found. Place it beside this script or upload it via the sidebar."

WARN_ADD == "Add / upload vendor_data.csv to use this feature."

WARN_NO_FIT == "No vendors fit those filters. Try tweaking budget or city."

INFO_CHOOSE == "Choose at least one service to estimate cost."

SUCCESS_TOTAL == "Estimated total cost"

\* A silent loader: no st.error for a missing file.
load_data_silent(exists, csv) ==
    IF ~exists THEN [df |-> <<>>, notices |-> {}]
    ELSE [df |-> csv, notices |-> {}]

\* load_data(path): exists is path.exists(), csv the table in the file.
load_data(exists, csv) ==
    IF ~exists THEN [df |-> <<>>, notices |-> {ERR_MISSING}]
    ELSE [df |-> csv, notices |-> {}]

\* DataFrame.empty
df_empty(df) == df = <<>>

\* A widget without session state, and one holding value v.  key is what the
\* identity of the widget is computed from besides its label (its options or
\* its default); a widget whose key changed is a new widget.
Unset == [set |-> FALSE]

Held(v, k) == [set |-> TRUE, v |-> v, key |-> k]

\* What a widget call returns: the held value, or the default for a widget
\* that is new in this run.
widget_value(st, key, default) ==
    IF st.set /\ st.key = key THEN st.v ELSE default

\* The value of the file uploader: None, or the table of the uploaded file
NoFile == [given |-> FALSE]

UploadedFile(t) == [given |-> TRUE, table |-> t]

FreshWidgets ==
    [uploaded |-> Unset, etype |-> Unset, budget |-> Unset, city |-> Unset,
     guests |-> Unset, tier_name |-> Unset, services |-> Unset, vendor_quote |-> Unset]

\* Lines 150-154: where vendors_df comes from.  exists1 is DATA_FILE.exists()
\* at line 150, exists2 is path.exists() inside load_data.
load_stage(w, exists1, exists2, csv) ==
    IF ~exists1
    THEN LET uploaded == widget_value(w.uploaded, "csv", NoFile)
         IN  [vendors_df |-> IF uploaded.given THEN uploaded.table ELSE <<>>,
              source |-> IF uploaded.given THEN "upload" ELSE "no upload",
              notices |-> {}, rendered |-> {"Upload vendor_data.csv"}, calls |-> {},
              uploaded |-> Held(uploaded, "csv")]
    ELSE LET ld == load_data(exists2, csv)
         IN  [vendors_df |-> ld.df,
              source |-> IF exists2 THEN "file" ELSE "file missing",
              notices |-> ld.notices, rendered |-> {}, calls |-> {"load_data"},
              uploaded |-> Unset]

\* {evt.strip() for col in vendors_df.event_types for evt in col.split(",")}
all_events(vendors_df) ==
    UNION { {str_strip(evt) : evt \in str_split(vendors_df[i].event_types)} :
              i \in 1..Len(vendors_df) }

\* int(vendors_df.max_budget.max())
max_of_max_budget(vendors_df) ==
    CHOOSE m \in {vendors_df[i].max_budget : i \in 1..Len(vendors_df)} :
        \A i \in 1..Len(vendors_df) : vendors_df[i].max_budget <= m

\* ranked.head(TOP_N): the index labels of the rows shown
head(ranked, n) ==
    [i \in 1..(IF Len(ranked) < n THEN Len(ranked) ELSE n) |-> ranked[i].idx]

NotShown == [shown |-> FALSE]

\* The upper end of st.slider("Budget (INR)", 10000, max_budget, value=60000):
\* the slider widens its range to hold the default.
slider_max(max_budget) == IF max_budget < 60000 THEN 60000 ELSE max_budget

\* The recommendation tab: the set of its possible outcomes (one per order
\* score_vendors can return).
rec_tab(vendors_df, w, trig) ==
    IF df_empty(vendors_df)
    THEN {[notices |-> {WARN_ADD}, rendered |-> {}, calls |-> {},
           ranked |-> NotShown, timeline |-> NotShown,
           etype |-> Unset, budget |-> Unset, city |-> Unset]}
    ELSE
      LET events == all_events(vendors_df)
          etype == widget_value(w.etype, events, str_min(events))
          max_budget == max_of_max_budget(vendors_df)
          budget == widget_value(w.budget, max_budget, 60000)
          cities == {vendors_df[i].city : i \in 1..Len(vendors_df)}
          city == widget_value(w.city, cities, str_min(cities))
          base == [notices |-> {},
                   rendered |-> {"Event type", "Budget (INR)", "City", "Recommend Vendors"},
                   calls |-> {}, ranked |-> NotShown, timeline |-> NotShown,
                   etype |-> Held(etype, events), budget |-> Held(budget, max_budget),
                   city |-> Held(city, cities)]
      IN  IF trig = "Recommend Vendors"
          THEN { IF df_empty(ranked)
                 THEN [base EXCEPT !.calls = {"score_vendors"},
                                   !.notices = {WARN_NO_FIT}]
                 ELSE [base EXCEPT !.calls = {"score_vendors", "checklist"},
                                   !.ranked = [shown |-> TRUE, rows |-> head(ranked, TOP_N)],
                                   !.timeline = [shown |-> TRUE, entries |-> checklist(etype)]]
                 : ranked \in score_vendors(vendors_df, etype, budget, city) }
          ELSE {base}

\* The estimation tab, as the set holding its outcome.  amount is the
\* int(total_est) the success message quotes; d, the default of the quote
\* input, is int(total_est * 1.25).
cost_tab(w, trig, db, tier_table) ==
    LET guests == widget_value(w.guests, "guests", 150)
        tier_name == widget_value(w.tier_name, "tier", TIER_KEYS[2])
        tier_factor == tier_table[tier_name]
        services == widget_value(w.services, "services", SubSeq(SERVICE_KEYS, 1, 4))
        base == [exception |-> "none", notices |-> {},
                 rendered |-> {"Number of guests", "Service tier",
                               "Select services required", "Estimate Cost"},
                 calls |-> {}, estimate |-> NotShown, negotiation |-> NotShown,
                 guests |-> Held(guests, "guests"), tier_name |-> Held(tier_name, "tier"),
                 services |-> Held(services, "services"), vendor_quote |-> Unset]
    IN  IF trig = "Estimate Cost" /\ services # <<>>
        THEN UNION {
               IF est.raised # "none"
               THEN {[base EXCEPT !.exception = est.raised, !.calls = {"estimate_cost"}]}
               ELSE
                 { LET vendor_quote == widget_value(w.vendor_quote, d, d)
                       shown == [base EXCEPT
                                   !.calls = {"estimate_cost"},
                                   !.notices = {SUCCESS_TOTAL},
                                   !.estimate = [shown |-> TRUE, breakdown |-> est.breakdown,
                                                 total_est |-> est.total,
                                                 amount |-> py_int(est.total)],
                                   !.rendered = @ \cup {"Enter vendor's quoted total (INR)",
                                                        "Negotiate"},
                                   !.vendor_quote = Held(vendor_quote, d)]
                   IN  IF trig = "Negotiate"
                       THEN LET n == negotiate(est.total, vendor_quote)
                            IN  [shown EXCEPT
                                   !.calls = @ \cup {"negotiate"},
                                   !.negotiation =
                                      [shown |-> TRUE, advice |-> n.advice,
                                       counter_offer |-> n.counter,
                                       written |-> n.counter # vendor_quote]]
                       ELSE shown
                   : d \in {py_int(float_times_1_25(est.total))} }
               : est \in {estimate_cost(db, services, guests, tier_factor)} }
        ELSE IF services = <<>>
        THEN {[base EXCEPT !.notices = {INFO_CHOOSE}]}
        ELSE {base}

-----------------------------------------------------------------------------
(* The session *)

\* A vendor_data.csv with budgets in INR; rows 1 and 3 score the same.
SampleTable ==
    << [city |-> sPune, event_types |-> sWeddingParty, rating |-> 45,
        min_budget |-> 20000, max_budget |-> 80000],
       [city |-> sGoa, event_types |-> sPreWedding, rating |-> 40,
        min_budget |-> 10000, max_budget |-> 60000],
       [city |-> sPune, event_types |-> sWeddingParty, rating |-> 45,
        min_budget |-> 20000, max_budget |-> 80000] >>

\* A vendor_data.csv whose largest max_budget is below the slider's default
SmallTable ==
    << [city |-> sGoa, event_types |-> sParty, rating |-> 40,
        min_budget |-> 10000, max_budget |-> 40000] >>

\* The files the user can upload: the two above and one with a header only
UploadTables == {SampleTable, SmallTable, <<>>}

ServiceChoices == {<<>>, <<sSecurity>>, <<sVenue, sPhotography>>, SubSeq(SERVICE_KEYS, 1, 4)}

InitApp ==
    /\ pc = "page"
    /\ args = NoCall
    /\ ret = NoCall
    /\ Globals
    /\ env \in {[file_exists |-> FALSE, csv |-> <<>>],
                [file_exists |-> TRUE, csv |-> SampleTable]}
    /\ widgets = FreshWidgets
    /\ trigger = "session start"
    /\ page = NoPage

\* One run of the script from top to bottom, started by the interaction trig
\* with the widget states w.  The file can vanish between the check at line
\* 150 and the check inside load_data.
ScriptRun(w, trig) ==
    \E exists2 \in (IF env.file_exists THEN BOOLEAN ELSE {FALSE}) :
      LET top == load_stage(w, env.file_exists, exists2, env.csv)
      IN  \E rec \in rec_tab(top.vendors_df, w, trig) :
            \E cost \in cost_tab(w, trig, service_db, tiers) :
              /\ page' = [exception |-> cost.exception,
                          source |-> top.source,
                          vendors_df |-> top.vendors_df,
                          notices |-> top.notices \cup rec.notices \cup cost.notices,
                          rendered |-> top.rendered \cup rec.rendered \cup cost.rendered,
                          calls |-> top.calls \cup rec.calls \cup cost.calls,
                          ranked |-> rec.ranked,
                          timeline |-> rec.timeline,
                          estimate |-> cost.estimate,
                          negotiation |-> cost.negotiation]
              /\ widgets' = [uploaded |-> top.uploaded,
                             etype |-> rec.etype, budget |-> rec.budget, city |-> rec.city,
                             guests |-> cost.guests, tier_name |-> cost.tier_name,
                             services |-> cost.services, vendor_quote |-> cost.vendor_quote]
              /\ trigger' = trig
              /\ env' = [env EXCEPT !.file_exists = exists2]
              /\ UNCHANGED <<pc, args, ret, service_db, tiers, raised_before>>

PageUp == pc = "page" /\ page # NoPage

FirstRun ==
    /\ pc = "page"
    /\ page = NoPage
    /\ ScriptRun(widgets, "session start")

Upload ==
    /\ PageUp
    /\ "Upload vendor_data.csv" \in page.rendered
    /\ \E t \in UploadTables :
          ScriptRun([widgets EXCEPT !.uploaded = Held(UploadedFile(t), "csv")],
                    "Upload vendor_data.csv")

SelectEventType ==
    /\ PageUp
    /\ "Event type" \in page.rendered
    /\ \E e \in widgets.etype.key :
          ScriptRun([widgets EXCEPT !.etype.v = e], "Event type")

MoveBudget ==
    /\ PageUp
    /\ "Budget (INR)" \in page.rendered
    /\ \E b \in {10000, 40000, 60000, 80000} :
          /\ b <= slider_max(widgets.budget.key)
          /\ ScriptRun([widgets EXCEPT !.budget.v = b], "Budget (INR)")

SelectCity ==
    /\ PageUp
    /\ "City" \in page.rendered
    /\ \E c \in widgets.city.key :
          ScriptRun([widgets EXCEPT !.city.v = c], "City")

ClickRecommend ==
    /\ PageUp
    /\ "Recommend Vendors" \in page.rendered
    /\ ScriptRun(widgets, "Recommend Vendors")

SetGuests ==
    /\ PageUp
    /\ "Number of guests" \in page.rendered
    /\ \E g \in {25, 150} :
          ScriptRun([widgets EXCEPT !.guests.v = g], "Number of guests")

SelectTier ==
    /\ PageUp
    /\ "Service tier" \in page.rendered
    /\ \E t \in DOMAIN tiers :
          ScriptRun([widgets EXCEPT !.tier_name.v = t], "Service tier")

SelectServices ==
    /\ PageUp
    /\ "Select services required" \in page.rendered
    /\ \E srvs \in ServiceChoices :
          ScriptRun([widgets EXCEPT !.services.v = srvs], "Select services required")

ClickEstimate ==
    /\ PageUp
    /\ "Estimate Cost" \in page.rendered
    /\ ScriptRun(widgets, "Estimate Cost")

SetVendorQuote ==
    /\ PageUp
    /\ "Enter vendor's quoted total (INR)" \in page.rendered
    /\ \E q \in {0, 100000} :
          ScriptRun([widgets EXCEPT !.vendor_quote.v = q], "Enter vendor's quoted total (INR)")

ClickNegotiate ==
    /\ PageUp
    /\ "Negotiate" \in page.rendered
    /\ ScriptRun(widgets, "Negotiate")

NextApp ==
    \/ FirstRun
    \/ Upload
    \/ SelectEventType
    \/ MoveBudget
    \/ SelectCity
    \/ ClickRecommend
    \/ SetGuests
    \/ SelectTier
    \/ SelectServices
    \/ ClickEstimate
    \/ SetVendorQuote
    \/ ClickNegotiate

SpecApp == InitApp /\ [][NextApp]_vars

\* C7: when the dataset file is absent and nothing was uploaded, the run ends
\* without an error, with an empty vendor table and a notice; the
\* recommendation tab does not call score_vendors; load_data reports the
\* missing path and returns an empty table; score_vendors on an empty table
\* returns an empty result.
C7_MissingDatasetNotice ==
    (PageUp /\ page.source \in {"no upload", "file missing"}) =>
        /\ page.exception = "none"
        /\ page.vendors_df = <<>>
        /\ WARN_ADD \in page.notices
        /\ "score_vendors" \notin page.calls
        /\ ~page.ranked.shown
        /\ page.source = "file missing" => ERR_MISSING \in page.notices
        /\ \A q \in {x \in ScoreQueries : x.df = <<>>} :
              score_vendors(page.vendors_df, q.event_type, q.budget, q.city) = {<<>>}

\* C7's case: the file vanished before load_data looked for it, and the user
\* then pressed a button of the page.
C7_Witness ==
    /\ PageUp
    /\ page.source = "no upload"
    /\ trigger = "Estimate Cost"
    /\ ~env.file_exists
    /\ env.csv = SampleTable

\* C8: the run started by a click on "Negotiate" (which can only follow a
\* click on "Estimate Cost" with a service selected) calls negotiate and
\* shows its advice.
C8_NegotiateClickNegotiates ==
    (PageUp /\ trigger = "Negotiate") =>
        /\ "negotiate" \in page.calls
        /\ page.negotiation.shown

=============================================================================
